---------------------------- MODULE Spec2Model ----------------------------
(***************************************************************************)
(* Ant colony simulation: the seeded linear congruential generator         *)
(* (src/rng.py), the pheromone Map and the Food grid, the Ant and the      *)
(* Colony (src/simulation.py).                                             *)
(*                                                                         *)
(* Numbers.  Python floats are modelled as fixed-point integers counting   *)
(* thousandths (ONE = 1000 stands for 1.0); a product or quotient is       *)
(* rounded toward zero to the next thousandth.  Python integers stay       *)
(* integers.  A draw of the generator is kept as its numerator state, the  *)
(* float being state / m.                                                  *)
(*                                                                         *)
(* Three specifications share the variables:                               *)
(*   SpecRng   the generator alone, from any seed;                         *)
(*   SpecGrid  calls of the Map and Food API at in-grid and out-of-grid    *)
(*             coordinates;                                                *)
(*   Spec      a Colony with its ants, fields and food.                    *)
(***************************************************************************)
EXTENDS Integers, Sequences, FiniteSets, TLC

VARIABLES
    rngState,       \* ManualRNG.state
    rngOut,         \* what the last ManualRNG call returned or raised
    rngDraws,       \* number of ManualRNG calls made so far
    food,           \* Food.map_vals: the set of cells <<gy, gx>> that are True
    home_map,       \* Map.map_vals of the home field: cell -> value, 0 where absent
    food_map,       \* Map.map_vals of the food field
    call,           \* the last Map/Food API call with what it returned or raised
    prevFood,       \* food as it was before the last API call
    prevHome,       \* home_map as it was before the last API call
    calls,          \* number of API calls made so far
    ants,           \* Colony.ants: sequence of Ant records
    food_delivered, \* Colony.food_delivered
    pickups,        \* number of pickups so far (bookkeeping for the conservation law)
    lastOp,         \* the Colony-level operation that produced this state
    ops,            \* number of Colony-level operations so far
    ticks,          \* number of Colony.update calls so far
    adds            \* number of Food.add_food calls so far

rngVars == <<rngState, rngOut, rngDraws>>
gridVars == <<call, prevFood, prevHome, calls>>
fieldVars == <<food, home_map, food_map>>
colonyVars == <<ants, food_delivered, pickups, lastOp, ops, ticks, adds>>
vars == <<rngState, rngOut, rngDraws, food, home_map, food_map, call, prevFood,
          prevHome, calls, ants, food_delivered, pickups, lastOp, ops, ticks,
          adds>>

\* Fixed-point unit: ONE thousandths make 1.0.
ONE == 1000

\* x * y / ONE rounded toward zero (a float product of two fixed-point numbers).
Mul(x, y) ==
    LET p == x * y
    IN  IF p >= 0 THEN p \div ONE ELSE -((-p) \div ONE)

\* x / y rounded toward zero, in thousandths (a float quotient), for y > 0.
Quot(x, y) ==
    LET p == x * ONE
    IN  IF p >= 0 THEN p \div y ELSE -((-p) \div y)

Abs(x) == IF x < 0 THEN -x ELSE x

Min2(a, b) == IF a < b THEN a ELSE b

Max2(a, b) == IF a > b THEN a ELSE b

(***************************************************************************)
(* src/rng.py: ManualRNG                                                   *)
(***************************************************************************)

\* self.m, self.a, self.c
RNG_M == 2147483647
RNG_A == 16807
RNG_C == 0

\* Seeds tried: -SeedSpan..SeedSpan, and the ends of the 32-bit range around m.
SeedSpan == 2
\* Calls of the generator in one run.
MaxDraws == 6

Seeds == (-SeedSpan..SeedSpan) \cup {42, RNG_M - 1, RNG_M, -RNG_M}

\* (a * state + c) % m.  Python computes it on unbounded integers; here the
\* product is split (m = a*q + r, r < q) so that no intermediate leaves 32
\* bits.  The value is the same.
LcgNext(state) ==
    LET q == RNG_M \div RNG_A
        r == RNG_M % RNG_A
        t == state % RNG_M
        v == RNG_A * (t % q) - r * (t \div q)
        av == IF v < 0 THEN v + RNG_M ELSE v
    IN  (av + RNG_C) % RNG_M

\* int(u * k) for the draw u = num / m, 0 <= num < m: the number of j in 1..k
\* with j * m <= num * k, compared after division by k to stay in 32 bits.
ScaleDraw(num, k) ==
    LET q == RNG_M \div k
        r == RNG_M % k
    IN  Cardinality({j \in 1..k : j * q + ((j * r + k - 1) \div k) <= num})

\* ManualRNG.random: [state |-> the new state, num |-> numerator of the float returned]
random(state) ==
    LET s == LcgNext(state)
    IN  [state |-> s, num |-> s]

\* ManualRNG.uniform(a, b), a and b in thousandths: a + (b - a) * random()
uniform(state, a, b) ==
    LET d == random(state)
    IN  [state |-> d.state, val |-> a + ScaleDraw(d.num, b - a)]

\* ManualRNG.randint(a, b): a + int(random() * (b - a + 1))
randint(state, a, b) ==
    LET d == random(state)
    IN  [state |-> d.state, val |-> a + ScaleDraw(d.num, b - a + 1)]

\* math.log(u1) of normal(): ValueError (math domain error) for u1 = 0.
LogRaises(u1) == u1 = 0

\* ManualRNG.normal: two draws, then sqrt(-2 log u1) * cos(2 pi u2).  The
\* value itself is transcendental and is not computed: the result records
\* the two draws and whether the logarithm raised.
normal(state) ==
    LET d1 == random(state)
        d2 == random(d1.state)
    IN  [state |-> d2.state, u1 |-> d1.num, u2 |-> d2.num,
         raised |-> LogRaises(d1.num)]

NoOut == [op |-> "init", val |-> 0, raised |-> FALSE]

RngRandom ==
    /\ rngDraws < MaxDraws
    /\ LET d == random(rngState)
       IN  /\ rngState' = d.state
           /\ rngOut' = [op |-> "random", val |-> d.num, raised |-> FALSE]
    /\ rngDraws' = rngDraws + 1
    /\ UNCHANGED <<fieldVars, gridVars, colonyVars>>

\* The two uniform calls of the program: uniform(0, 1.5) and uniform(0, 2 pi).
UniformArgs == {<<0, 1500>>, <<0, 6283>>}

RngUniform ==
    /\ rngDraws < MaxDraws
    /\ \E ab \in UniformArgs :
         LET d == uniform(rngState, ab[1], ab[2])
         IN  /\ rngState' = d.state
             /\ rngOut' = [op |-> "uniform", val |-> d.val, raised |-> FALSE]
    /\ rngDraws' = rngDraws + 1
    /\ UNCHANGED <<fieldVars, gridVars, colonyVars>>

RngRandint ==
    /\ rngDraws < MaxDraws
    /\ LET d == randint(rngState, 0, 15)
       IN  /\ rngState' = d.state
           /\ rngOut' = [op |-> "randint", val |-> d.val, raised |-> FALSE]
    /\ rngDraws' = rngDraws + 1
    /\ UNCHANGED <<fieldVars, gridVars, colonyVars>>

RngNormal ==
    /\ rngDraws < MaxDraws
    /\ LET d == normal(rngState)
       IN  /\ rngState' = d.state
           /\ rngOut' = [op |-> "normal", val |-> d.u1, raised |-> d.raised]
    /\ rngDraws' = rngDraws + 1
    /\ UNCHANGED <<fieldVars, gridVars, colonyVars>>

(***************************************************************************)
(* src/simulation.py: Map and Food.  Coordinates of the API are Python     *)
(* integers (pixels); a cell is <<gy, gx>>, as in map_vals[gy, gx].        *)
(***************************************************************************)

\* The 4 of x // 4, and the window and grid of main.py.
CELL_SIZE == 4
WIDTH == 600
HEIGHT == 400
GRID_WIDTH == WIDTH \div CELL_SIZE
GRID_HEIGHT == HEIGHT \div CELL_SIZE

\* np.zeros((height, width)): no cell present, every value 0.
EmptyMap == [c \in {} |-> 0]

\* map_vals[gy, gx] read: the stored value, 0.0 where nothing was written.
MapAt(m, c) == IF c \in DOMAIN m THEN m[c] ELSE 0

\* 0 <= gx < self.width and 0 <= gy < self.height
InGrid(gx, gy) == 0 <= gx /\ gx < GRID_WIDTH /\ 0 <= gy /\ gy < GRID_HEIGHT

\* numpy indexing of an axis of length n: -n <= i < n is accepted, a negative
\* index counting from the end; anything else raises IndexError.
NpIndexOk(i, n) == -n <= i /\ i < n

NpIndex(i, n) == IF i < 0 THEN i + n ELSE i

\* Map.set_value(x, y, val): the new map_vals
Map_set_value(m, x, y, val) ==
    LET gx == x \div CELL_SIZE
        gy == y \div CELL_SIZE
        c == <<gy, gx>>
    IN  IF InGrid(gx, gy) /\ val > MapAt(m, c)
        THEN [d \in DOMAIN m \cup {c} |-> IF d = c THEN val ELSE m[d]]
        ELSE m

\* Map.get_value(x, y): the cell's value, -1 outside the grid
Map_get_value(m, x, y) ==
    LET gx == x \div CELL_SIZE
        gy == y \div CELL_SIZE
    IN  IF InGrid(gx, gy) THEN MapAt(m, <<gy, gx>>) ELSE -ONE

\* directions of Map.get_weighted_direction, as (dx, dy)
directions ==
    << <<-1, -1>>, <<0, -1>>, <<1, -1>>, <<-1, 0>>,
       <<1, 0>>, <<-1, 1>>, <<0, 1>>, <<1, 1>> >>

\* The loop of get_weighted_direction from direction k on: acc is
\* <<sum_dx, sum_dy, total>>.
RECURSIVE SumDirections(_, _, _, _, _)
SumDirections(m, gx, gy, k, acc) ==
    IF k > Len(directions) THEN acc
    ELSE LET dx == directions[k][1]
             dy == directions[k][2]
             nx == gx + dx
             ny == gy + dy
             value == MapAt(m, <<ny, nx>>)
         IN  IF InGrid(nx, ny)
             THEN SumDirections(m, gx, gy, k + 1,
                     <<acc[1] + dx * value, acc[2] + dy * value, acc[3] + value>>)
             ELSE SumDirections(m, gx, gy, k + 1, acc)

\* Map.get_weighted_direction(x, y): [sum_dx / total, sum_dy / total], or [0, 0]
Map_get_weighted_direction(m, x, y) ==
    LET gx == x \div CELL_SIZE
        gy == y \div CELL_SIZE
        s == SumDirections(m, gx, gy, 1, <<0, 0, 0>>)
    IN  IF s[3] > 0 THEN <<Quot(s[1], s[3]), Quot(s[2], s[3])>> ELSE <<0, 0>>

\* Food.add_food(x, y): the loops run i over range(gy, min(gy + 5, height))
\* and j over range(gx, min(gx + 5, width)) and write map_vals[i, j] = True.
\* The lower end of a range is not clipped, so i and j may be negative: numpy
\* takes -n..-1 from the end of the axis and raises IndexError below -n.  The
\* writes made before the first raising index stay.
Food_add_food(f, x, y) ==
    LET gx == x \div CELL_SIZE
        gy == y \div CELL_SIZE
        rows == gy .. (Min2(gy + 5, GRID_HEIGHT) - 1)
        cols == gx .. (Min2(gx + 5, GRID_WIDTH) - 1)
        Ok(p) == NpIndexOk(p[1], GRID_HEIGHT) /\ NpIndexOk(p[2], GRID_WIDTH)
        Before(p, q) == p[1] < q[1] \/ (p[1] = q[1] /\ p[2] < q[2])
        bad == {p \in rows \X cols : ~Ok(p)}
        written == {p \in rows \X cols : Ok(p) /\ \A b \in bad : ~Before(b, p)}
    IN  [food |-> f \cup {<<NpIndex(p[1], GRID_HEIGHT), NpIndex(p[2], GRID_WIDTH)>> :
                            p \in written},
         raised |-> bad # {}]

\* Food.bite(x, y): the new map_vals
Food_bite(f, x, y) ==
    LET gx == x \div CELL_SIZE
        gy == y \div CELL_SIZE
    IN  IF InGrid(gx, gy) THEN f \ {<<gy, gx>>} ELSE f

\* Food.get_value(x, y)
Food_get_value(f, x, y) ==
    LET gx == x \div CELL_SIZE
        gy == y \div CELL_SIZE
    IN  IF InGrid(gx, gy) THEN <<gy, gx>> \in f ELSE FALSE

(***************************************************************************)
(* SpecGrid: the Map and Food API called at coordinates inside the grid,   *)
(* just outside it and far outside it.                                     *)
(***************************************************************************)

\* How far outside the window the far coordinates lie.
FarCoord == 4000
\* API calls in one run.
MaxCalls == 2

GridXs == {-FarCoord, -2 * CELL_SIZE, 0, 5, WIDTH - 2 * CELL_SIZE, WIDTH, FarCoord}
GridYs == {-FarCoord, -CELL_SIZE, 0, HEIGHT - CELL_SIZE, HEIGHT, FarCoord}
\* Values written by set_value: 50.0 and 100.0.
GridVals == {50 * ONE, 100 * ONE}

NoCall == [op |-> "init", x |-> 0, y |-> 0, raised |-> FALSE,
           retVal |-> 0, retFlag |-> FALSE, retDir |-> <<0, 0>>]

Called(op, x, y) == [NoCall EXCEPT !.op = op, !.x = x, !.y = y]

GridSetValue ==
    /\ calls < MaxCalls
    /\ \E x \in GridXs, y \in GridYs, val \in GridVals :
         /\ home_map' = Map_set_value(home_map, x, y, val)
         /\ call' = Called("set_value", x, y)
    /\ prevFood' = food
    /\ prevHome' = home_map
    /\ calls' = calls + 1
    /\ UNCHANGED <<food, food_map, rngVars, colonyVars>>

GridGetValue ==
    /\ calls < MaxCalls
    /\ \E x \in GridXs, y \in GridYs :
         call' = [Called("get_value", x, y) EXCEPT
                     !.retVal = Map_get_value(home_map, x, y)]
    /\ prevFood' = food
    /\ prevHome' = home_map
    /\ calls' = calls + 1
    /\ UNCHANGED <<fieldVars, rngVars, colonyVars>>

GridWeightedDirection ==
    /\ calls < MaxCalls
    /\ \E x \in GridXs, y \in GridYs :
         call' = [Called("get_weighted_direction", x, y) EXCEPT
                     !.retDir = Map_get_weighted_direction(home_map, x, y)]
    /\ prevFood' = food
    /\ prevHome' = home_map
    /\ calls' = calls + 1
    /\ UNCHANGED <<fieldVars, rngVars, colonyVars>>

GridAddFood ==
    /\ calls < MaxCalls
    /\ \E x \in GridXs, y \in GridYs :
         LET r == Food_add_food(food, x, y)
         IN  /\ food' = r.food
             /\ call' = [Called("add_food", x, y) EXCEPT !.raised = r.raised]
    /\ prevFood' = food
    /\ prevHome' = home_map
    /\ calls' = calls + 1
    /\ UNCHANGED <<home_map, food_map, rngVars, colonyVars>>

GridBite ==
    /\ calls < MaxCalls
    /\ \E x \in GridXs, y \in GridYs :
         /\ food' = Food_bite(food, x, y)
         /\ call' = Called("bite", x, y)
    /\ prevFood' = food
    /\ prevHome' = home_map
    /\ calls' = calls + 1
    /\ UNCHANGED <<home_map, food_map, rngVars, colonyVars>>

GridFoodGetValue ==
    /\ calls < MaxCalls
    /\ \E x \in GridXs, y \in GridYs :
         call' = [Called("food_get_value", x, y) EXCEPT
                     !.retFlag = Food_get_value(food, x, y)]
    /\ prevFood' = food
    /\ prevHome' = home_map
    /\ calls' = calls + 1
    /\ UNCHANGED <<fieldVars, rngVars, colonyVars>>

\* The parts of the state a specification does not use stay as constructed.
NoColony ==
    /\ ants = << >>
    /\ food_delivered = 0
    /\ pickups = 0
    /\ lastOp = "init"
    /\ ops = 0
    /\ ticks = 0
    /\ adds = 0

NoGridCalls ==
    /\ call = NoCall
    /\ prevFood = {}
    /\ prevHome = EmptyMap
    /\ calls = 0

NoFields ==
    /\ food = {}
    /\ home_map = EmptyMap
    /\ food_map = EmptyMap

(***************************************************************************)
(* src/simulation.py: Ant                                                  *)
(***************************************************************************)

\* self.use_rate = 0.995, self.wander_chance = 0.92 (the wander test itself is
\* a draw and enters as the boolean of the draw record), pheromone reset 100.
USE_RATE == 995
FULL_PHER == 100 * ONE
\* The margin 2 of the boundary conditions of Ant.step.
EDGE == 2 * ONE
\* The nest region of Colony.update: within 20 pixels on each axis.
NEST_RANGE == 20
\* collision_distance = 8, the overlap distance 0.1 and e = 0.5 of
\* Colony.resolve_collisions.
COLLISION_DISTANCE == 8 * ONE
OVERLAP_DIST == 100
RESTITUTION == 500

\* int(x) of a float: rounds toward zero.
PyInt(x) == IF x >= 0 THEN x \div ONE ELSE -((-x) \div ONE)

\* Ant.__init__(x, y, ...): n is the pair of rng.normal(0, 1) draws for dx, dy.
\* depMap and dep record the field ("home", "food") and the value handed to
\* set_value in the ant's last step, "none" and 0 if there was no call.
Ant(x, y, n) ==
    [dx |-> n[1], dy |-> n[2], x |-> x * ONE, y |-> y * ONE,
     int_x |-> x, int_y |-> y, last_x |-> x, last_y |-> y,
     has_food |-> FALSE, home_pher |-> FULL_PHER, food_pher |-> FULL_PHER,
     bored |-> 0, dep |-> 0, depMap |-> "none"]

\* Mutant of Clamp: only the upper side is clamped.
ClampUpperOnly(v) == Min2(v, ONE)

\* max(min(v, 1), -1)
Clamp(v) == Max2(Min2(v, ONE), -ONE)

\* Lines 128-144 of Ant.step: the noise, the boredom counter and the
\* steering.  d holds the draws: d.w1, d.w2 and d.b are the three tests
\* rng.random() > ..., d.n1 and d.n2 the normal draws, d.k the randint draw,
\* d.u1 and d.u2 the uniform(0, 1.5) draws.
Steer(a, hm, fm, dt, d) ==
    LET dx1 == IF d.w1 THEN a.dx + Mul(d.n1, dt) ELSE a.dx
        dy1 == IF d.w2 THEN a.dy + Mul(d.n2, dt) ELSE a.dy
        bored1 == IF d.b THEN a.bored + d.k ELSE a.bored
        direction == IF a.has_food
                     THEN Map_get_weighted_direction(hm, a.int_x, a.int_y)
                     ELSE Map_get_weighted_direction(fm, a.int_x, a.int_y)
    IN  IF bored1 > 0
        THEN [a EXCEPT !.dx = dx1, !.dy = dy1, !.bored = bored1 - 1]
        ELSE [a EXCEPT !.dx = dx1 + Mul(Mul(direction[1], d.u1), dt),
                       !.dy = dy1 + Mul(Mul(direction[2], d.u2), dt),
                       !.bored = bored1]

\* Lines 147-154 of Ant.step: the boundary conditions.
Bounce(a) ==
    LET dx1 == IF a.x < EDGE THEN ONE ELSE a.dx
        dx2 == IF a.x > WIDTH * ONE - EDGE THEN -ONE ELSE dx1
        dy1 == IF a.y < EDGE THEN ONE ELSE a.dy
        dy2 == IF a.y > HEIGHT * ONE - EDGE THEN -ONE ELSE dy1
    IN  [a EXCEPT !.dx = dx2, !.dy = dy2]

\* Lines 156-163 of Ant.step: the clamp and the position update.
Move(a, dt) ==
    LET dx == Clamp(a.dx)
        dy == Clamp(a.dy)
        x == a.x + Mul(dx, dt)
        y == a.y + Mul(dy, dt)
    IN  [a EXCEPT !.dx = dx, !.dy = dy, !.x = x, !.y = y,
                  !.int_x = PyInt(x), !.int_y = PyInt(y)]

\* Mutant of Deposit: the value is handed to set_value first and the scent
\* is multiplied by use_rate afterwards.
DepositBeforeDecay(a, hm, fm) ==
    IF a.last_x # a.int_x \/ a.last_y # a.int_y
    THEN IF a.has_food
         THEN [ant |-> [a EXCEPT !.food_pher = Mul(a.food_pher, USE_RATE),
                                 !.dep = a.food_pher, !.depMap = "food",
                                 !.last_x = a.int_x, !.last_y = a.int_y],
               home_map |-> hm,
               food_map |-> Map_set_value(fm, a.int_x, a.int_y, a.food_pher)]
         ELSE [ant |-> [a EXCEPT !.home_pher = Mul(a.home_pher, USE_RATE),
                                 !.dep = a.home_pher, !.depMap = "home",
                                 !.last_x = a.int_x, !.last_y = a.int_y],
               home_map |-> Map_set_value(hm, a.int_x, a.int_y, a.home_pher),
               food_map |-> fm]
    ELSE [ant |-> [a EXCEPT !.dep = 0, !.depMap = "none"],
          home_map |-> hm, food_map |-> fm]

\* Lines 165-174 of Ant.step: if the integer position changed, the scent of
\* the carrying state is multiplied by use_rate and the product is handed to
\* set_value of the matching field; then last_x, last_y are updated.
Deposit(a, hm, fm) ==
    IF a.last_x # a.int_x \/ a.last_y # a.int_y
    THEN IF a.has_food
         THEN LET pher == Mul(a.food_pher, USE_RATE)
              IN  [ant |-> [a EXCEPT !.food_pher = pher,
                                     !.dep = pher, !.depMap = "food",
                                     !.last_x = a.int_x, !.last_y = a.int_y],
                   home_map |-> hm,
                   food_map |-> Map_set_value(fm, a.int_x, a.int_y, pher)]
         ELSE LET pher == Mul(a.home_pher, USE_RATE)
              IN  [ant |-> [a EXCEPT !.home_pher = pher,
                                     !.dep = pher, !.depMap = "home",
                                     !.last_x = a.int_x, !.last_y = a.int_y],
                   home_map |-> Map_set_value(hm, a.int_x, a.int_y, pher),
                   food_map |-> fm]
    ELSE [ant |-> [a EXCEPT !.dep = 0, !.depMap = "none"],
          home_map |-> hm, food_map |-> fm]

\* Ant.step(dt) with the draws d: [ant, home_map, food_map] afterwards
step(a, hm, fm, dt, d) ==
    Deposit(Move(Bounce(Steer(a, hm, fm, dt, d)), dt), hm, fm)

(***************************************************************************)
(* src/simulation.py: Colony                                               *)
(***************************************************************************)

\* The nest of main(): Colony(WIDTH // 2, HEIGHT // 2, ...)
NEST_X == WIDTH \div 2
NEST_Y == HEIGHT \div 2

\* abs(ant.int_x - self.x) < 20 and abs(ant.int_y - self.y) < 20
InNestBox(a) ==
    Abs(a.int_x - NEST_X) < NEST_RANGE /\ Abs(a.int_y - NEST_Y) < NEST_RANGE

\* Mutant of Delivered: the counter is not incremented.
DeliveredUncounted(n) == n

\* self.food_delivered += 1
Delivered(n) == n + 1

\* Mutant of Picked: the whole block around the cell is cleared.
PickedBlock(f, a) ==
    LET gx == a.int_x \div CELL_SIZE
        gy == a.int_y \div CELL_SIZE
    IN  f \ ((gy - 2 .. gy + 2) \X (gx - 2 .. gx + 2))

\* food.bite(ant.int_x, ant.int_y) of a pickup
Picked(f, a) == Food_bite(f, a.int_x, a.int_y)

\* The body of the loop of Colony.update for the ant at index i, with the
\* draws d of its step.  st holds ants, the two fields, food, food_delivered
\* and pickups.
UpdateAnt(st, i, dt, d) ==
    LET r == step(st.ants[i], st.home_map, st.food_map, dt, d)
        a == r.ant
        st1 == [st EXCEPT !.home_map = r.home_map, !.food_map = r.food_map]
    IN  IF a.has_food
        THEN IF InNestBox(a)
             THEN [st1 EXCEPT
                     !.ants[i] = [a EXCEPT !.has_food = FALSE,
                                           !.home_pher = FULL_PHER],
                     !.food_delivered = Delivered(st.food_delivered)]
             ELSE [st1 EXCEPT !.ants[i] = a]
        ELSE IF Food_get_value(st.food, a.int_x, a.int_y)
             THEN [st1 EXCEPT
                     !.ants[i] = [a EXCEPT !.has_food = TRUE,
                                           !.food_pher = FULL_PHER],
                     !.food = Picked(st.food, a),
                     !.pickups = st.pickups + 1]
             ELSE [st1 EXCEPT !.ants[i] = a]

\* Colony.update(food, dt) from the ant at index i on: the ants are stepped
\* in collection order, each seeing the fields and the food as the ants
\* before it left them.  ds[i] holds the draws of ant i.
RECURSIVE update(_, _, _, _)
update(st, i, dt, ds) ==
    IF i > Len(st.ants) THEN st
    ELSE update(UpdateAnt(st, i, dt, ds[i]), i + 1, dt, ds)

\* Floor of the square root of n >= 0, searched between lo and hi
\* (lo * lo <= n < hi * hi).
RECURSIVE SqrtBetween(_, _, _)
SqrtBetween(n, lo, hi) ==
    IF hi - lo <= 1 THEN lo
    ELSE LET mid == (lo + hi) \div 2
         IN  IF mid * mid <= n THEN SqrtBetween(n, mid, hi)
             ELSE SqrtBetween(n, lo, mid)

\* math.hypot(dx, dy) in thousandths, rounded down.  The only use of a
\* distance of COLLISION_DISTANCE or more is the test dist < collision_distance,
\* so beyond that reach on an axis the larger axis distance stands for it
\* (the squares would leave 32 bits).
hypot(dx, dy) ==
    IF Abs(dx) >= COLLISION_DISTANCE \/ Abs(dy) >= COLLISION_DISTANCE
    THEN Max2(Abs(dx), Abs(dy))
    ELSE SqrtBetween(dx * dx + dy * dy, 0, 2 * COLLISION_DISTANCE)

\* [cos(angle), sin(angle)] for the angles rng.uniform(0, 2 pi) is drawn
\* from: 0, and the angle of the 3-4-5 triangle in the second quadrant,
\* whose cosine and sine are exact in thousandths.
OverlapNormals == {<<ONE, 0>>, <<-600, 800>>}

\* Mutant of Correction: the agents are pushed half the collision distance
\* each, whatever their distance.
CorrectionFull(dist) == Mul(500, COLLISION_DISTANCE)

\* Mutant of Correction: the penetration is taken with the wrong sign.
CorrectionInward(dist) == Mul(500, dist - COLLISION_DISTANCE)

\* penetration = collision_distance - dist; correction = 0.5 * penetration
Correction(dist) == Mul(500, COLLISION_DISTANCE - dist)

\* Lines 205-232 of Colony.resolve_collisions for the pair (i, j): the set of
\* outcomes, one per contact normal (a single one unless the distance is 0).
ResolvePair(as, i, j) ==
    LET ant1 == as[i]
        ant2 == as[j]
        dx == ant1.x - ant2.x
        dy == ant1.y - ant2.y
        dist0 == hypot(dx, dy)
        dist == IF dist0 = 0 THEN OVERLAP_DIST ELSE dist0
        normals == IF dist0 = 0 THEN OverlapNormals
                   ELSE {<<Quot(dx, dist0), Quot(dy, dist0)>>}
        correction == Correction(dist)
        Apply(nrm) ==
            LET rel_vx == ant1.dx - ant2.dx
                rel_vy == ant1.dy - ant2.dy
                rel_dot == Mul(rel_vx, nrm[1]) + Mul(rel_vy, nrm[2])
                impulse == IF rel_dot < 0
                           THEN Mul(ONE + RESTITUTION, -rel_dot) \div 2
                           ELSE 0
            IN  [as EXCEPT
                   ![i] = [ant1 EXCEPT
                             !.x = ant1.x + Mul(correction, nrm[1]),
                             !.y = ant1.y + Mul(correction, nrm[2]),
                             !.dx = ant1.dx + Mul(impulse, nrm[1]),
                             !.dy = ant1.dy + Mul(impulse, nrm[2])],
                   ![j] = [ant2 EXCEPT
                             !.x = ant2.x - Mul(correction, nrm[1]),
                             !.y = ant2.y - Mul(correction, nrm[2]),
                             !.dx = ant2.dx - Mul(impulse, nrm[1]),
                             !.dy = ant2.dy - Mul(impulse, nrm[2])]]
    IN  IF dist0 < COLLISION_DISTANCE
        THEN {Apply(nrm) : nrm \in normals}
        ELSE {as}

\* Colony.resolve_collisions from the pair (i, j) on, in the order of the two
\* loops (indices from 1): the set of outcomes of the pass.
RECURSIVE resolve_collisions(_, _, _)
resolve_collisions(as, i, j) ==
    IF i > Len(as) THEN {as}
    ELSE IF j > Len(as) THEN resolve_collisions(as, i + 1, i + 2)
    ELSE UNION {resolve_collisions(b, i, j + 1) : b \in ResolvePair(as, i, j)}

(***************************************************************************)
(* Spec: a colony at the nest of main(), with food placed around it.       *)
(***************************************************************************)

\* Colony sizes tried.
Counts == {1, 2, 3}
\* Colony-level operations in one run, and Colony.update calls among them.
MaxOps == 5
MaxTicks == 2
MaxAdds == 1

\* The pairs of normal draws an ant is constructed with (dx, dy).
InitNormals == {<<0, 0>>, <<1500, -300>>}

\* Time step passed to Colony.update: the dt = 0.45 of main().
Dts == {450}

\* The draws of one Ant.step: a quiet step that only steers, and a step with
\* noise on both axes that gets bored.
Draws ==
    { [w1 |-> FALSE, n1 |-> 0, w2 |-> FALSE, n2 |-> 0,
       b |-> FALSE, k |-> 0, u1 |-> 750, u2 |-> 1400],
      [w1 |-> TRUE, n1 |-> 5000, w2 |-> TRUE, n2 |-> -5000,
       b |-> TRUE, k |-> 2, u1 |-> 1400, u2 |-> 200] }

\* Where food.add_food is called: a block that covers the nest.
FoodSpots == {<<NEST_X - CELL_SIZE, NEST_Y - CELL_SIZE>>}

Carrying(as) == Cardinality({i \in 1..Len(as) : as[i].has_food})

\* food.add_food(x, y), the mouse click of main()
AddFood ==
    /\ ops < MaxOps
    /\ adds < MaxAdds
    /\ Len(ants) > 0
    /\ \E p \in FoodSpots : food' = Food_add_food(food, p[1], p[2]).food
    /\ lastOp' = "add_food"
    /\ ops' = ops + 1
    /\ adds' = adds + 1
    /\ UNCHANGED <<home_map, food_map, ants, food_delivered, pickups, ticks,
                   rngVars, gridVars>>

\* colony.update(food, dt)
Update ==
    /\ ops < MaxOps
    /\ ticks < MaxTicks
    /\ Len(ants) > 0
    /\ \E dt \in Dts, ds \in [1..Len(ants) -> Draws] :
         LET st == update([ants |-> ants, home_map |-> home_map,
                           food_map |-> food_map, food |-> food,
                           food_delivered |-> food_delivered,
                           pickups |-> pickups], 1, dt, ds)
         IN  /\ ants' = st.ants
             /\ home_map' = st.home_map
             /\ food_map' = st.food_map
             /\ food' = st.food
             /\ food_delivered' = st.food_delivered
             /\ pickups' = st.pickups
    /\ lastOp' = "update"
    /\ ops' = ops + 1
    /\ ticks' = ticks + 1
    /\ UNCHANGED <<adds, rngVars, gridVars>>

\* colony.resolve_collisions()
ResolveCollisions ==
    /\ ops < MaxOps
    /\ Len(ants) > 0
    /\ ants' \in resolve_collisions(ants, 1, 2)
    /\ lastOp' = "resolve"
    /\ ops' = ops + 1
    /\ UNCHANGED <<fieldVars, food_delivered, pickups, ticks, adds, rngVars,
                   gridVars>>

\* Colony(NEST_X, NEST_Y, count, home_map, food_map): count ants at the nest,
\* each with its own pair of normal draws.
Init ==
    /\ rngState = 1
    /\ rngOut = NoOut
    /\ rngDraws = 0
    /\ NoFields
    /\ NoGridCalls
    /\ \E count \in Counts :
         ants \in [1..count -> {Ant(NEST_X, NEST_Y, n) : n \in InitNormals}]
    /\ food_delivered = 0
    /\ pickups = 0
    /\ lastOp = "init"
    /\ ops = 0
    /\ ticks = 0
    /\ adds = 0

Next == AddFood \/ Update \/ ResolveCollisions

Spec == Init /\ [][Next]_vars

(***************************************************************************)
(* Specifications                                                          *)
(***************************************************************************)

\* ManualRNG(seed): self.state = seed, for any integer seed.
InitRng ==
    /\ rngState \in Seeds
    /\ rngOut = NoOut
    /\ rngDraws = 0
    /\ NoFields
    /\ NoGridCalls
    /\ NoColony

NextRng == RngRandom \/ RngUniform \/ RngRandint \/ RngNormal

SpecRng == InitRng /\ [][NextRng]_vars

\* Map(GRID_WIDTH, GRID_HEIGHT) and Food(GRID_WIDTH, GRID_HEIGHT), as main() builds them.
InitGrid ==
    /\ rngState = 1
    /\ rngOut = NoOut
    /\ rngDraws = 0
    /\ NoFields
    /\ NoGridCalls
    /\ NoColony

NextGrid ==
    \/ GridSetValue
    \/ GridGetValue
    \/ GridWeightedDirection
    \/ GridAddFood
    \/ GridBite
    \/ GridFoodGetValue

SpecGrid == InitGrid /\ [][NextGrid]_vars

(***************************************************************************)
(* Claims about the generator (SpecRng)                                    *)
(***************************************************************************)

\* C7: for a ManualRNG created with any integer seed, state is in
\* [0, modulus) in every state from construction onward, and every random()
\* result (numerator / modulus) is in [0, 1).
C7_StateInRange ==
    /\ 0 <= rngState /\ rngState < RNG_M
    /\ rngOut.op = "random" => (0 <= rngOut.val /\ rngOut.val < RNG_M)

\* C8: normal() never passes a zero draw to the logarithm: after every
\* normal() call, for every seed, the first draw was not 0 and nothing was
\* raised.
C8_NormalNeverLogsZero ==
    rngOut.op = "normal" => (rngOut.val # 0 /\ ~rngOut.raised)

(***************************************************************************)
(* Claims about the Map and Food API (SpecGrid)                            *)
(***************************************************************************)

\* The mapped cell of the last call lies outside the grid.
CallOutOfGrid == ~InGrid(call.x \div CELL_SIZE, call.y \div CELL_SIZE)

\* The cells of the 5x5 block of add_food(x, y) that lie inside the grid.
BlockInGrid(x, y) ==
    LET gx == x \div CELL_SIZE
        gy == y \div CELL_SIZE
    IN  {c \in (gy .. gy + 4) \X (gx .. gx + 4) : InGrid(c[2], c[1])}

\* C1: no Map or Food call raises, at any coordinate; a set_value or bite at
\* an out-of-grid cell, and an add_food whose block misses the grid, change
\* nothing; a get_value at an out-of-grid cell returns -1 (Map) or False
\* (Food).
C1_NeverRaises ==
    /\ ~call.raised
    /\ (call.op \in {"set_value", "bite"} /\ CallOutOfGrid)
         => (food = prevFood /\ home_map = prevHome)
    /\ (call.op = "add_food" /\ BlockInGrid(call.x, call.y) = {})
         => food = prevFood
    /\ (call.op = "get_value" /\ CallOutOfGrid) => call.retVal = -ONE
    /\ (call.op = "food_get_value" /\ CallOutOfGrid) => call.retFlag = FALSE

\* C2: add_food(x, y) sets exactly the cells of its 5x5 block that lie inside
\* the grid and leaves every other cell as it was: a block whose origin is
\* left of or above the grid is clipped, not wrapped to the opposite edge.
C2_AddFoodClipped ==
    call.op = "add_food" => food = prevFood \cup BlockInGrid(call.x, call.y)

(***************************************************************************)
(* Claims about the colony (Spec)                                          *)
(***************************************************************************)

\* Rounding allowance, in thousandths, where distances are compared: each
\* fixed-point product or quotient loses less than one thousandth, and a
\* pass over three agents chains fewer than twenty of them per coordinate.
DistTol == 20

\* Center distance of the ants at indices i and j.
PairDist(as, i, j) == hypot(as[i].x - as[j].x, as[i].y - as[j].y)

AntPairs(as) == {p \in (1..Len(as)) \X (1..Len(as)) : p[1] < p[2]}

\* The pair p, overlapping before the pass, is at the collision distance
\* after it, or farther apart than before less the slack.
Separated(p, slack) ==
    PairDist(ants, p[1], p[2]) < COLLISION_DISTANCE
      => \/ PairDist(ants', p[1], p[2]) > PairDist(ants, p[1], p[2]) - slack
         \/ Abs(PairDist(ants', p[1], p[2]) - COLLISION_DISTANCE) <= DistTol

\* C5 as stated: after one resolve_collisions pass over a colony of any
\* size, every pair that overlapped before the pass is strictly farther
\* apart than before, or exactly at the collision distance.  The rounding
\* allowance is granted on both sides, so that a violation is a pair that
\* the pass brought closer by more than the allowance.
C5_EveryPairSeparated ==
    [][lastOp' = "resolve"
         => \A p \in AntPairs(ants) : Separated(p, DistTol)]_vars

\* C5 amended: after one resolve_collisions pass over a colony of exactly
\* two agents, the pair, if it overlapped before the pass, is strictly
\* farther apart than before or at the collision distance.
C5_TwoAgentsSeparated ==
    [][(lastOp' = "resolve" /\ Len(ants) = 2)
         => \A p \in AntPairs(ants) : Separated(p, 0)]_vars

\* One update moved two agents less than a cell apart and the pass that
\* followed left them at the collision distance.
C5_Witness ==
    /\ lastOp = "resolve"
    /\ ops = 2
    /\ ticks = 1
    /\ Len(ants) = 2
    /\ Abs(PairDist(ants, 1, 2) - COLLISION_DISTANCE) <= DistTol

\* The two agents of a two-agent colony are at identical coordinates.
Coincide == Len(ants) = 2 /\ ants[1].x = ants[2].x /\ ants[1].y = ants[2].y

ZeroVelocity == \A i \in 1..Len(ants) : ants[i].dx = 0 /\ ants[i].dy = 0

\* C4 as stated: when two agents at identical coordinates with zero velocity
\* run resolve_collisions, their distance afterwards is at least the
\* collision distance 8.
C4_SeparatedToCollisionDistance ==
    [][(lastOp' = "resolve" /\ Coincide /\ ZeroVelocity)
         => PairDist(ants', 1, 2) >= COLLISION_DISTANCE]_vars

\* C4 amended: when two agents at identical coordinates (with any velocity)
\* run resolve_collisions, their distance afterwards is 7.9, the collision
\* distance less the overlap distance 0.1.
C4_SeparatedToSevenPointNine ==
    [][(lastOp' = "resolve" /\ Coincide)
         => PairDist(ants', 1, 2) = COLLISION_DISTANCE - OVERLAP_DIST]_vars

\* Two agents constructed at the nest with zero velocity have run one pass.
C4_Witness ==
    /\ lastOp = "resolve"
    /\ ops = 1
    /\ Len(ants) = 2
    /\ ZeroVelocity
    /\ PairDist(ants, 1, 2) = COLLISION_DISTANCE - OVERLAP_DIST

VelocityInRange(a) == Abs(a.dx) <= ONE /\ Abs(a.dy) <= ONE

\* C6 as stated: in every reachable state (after construction, after each
\* update, after each resolve_collisions) dx and dy of every agent lie in
\* [-1, 1].
C6_VelocityAlwaysInRange ==
    \A i \in 1..Len(ants) : VelocityInRange(ants[i])

\* C6 amended: after each Colony.update, dx and dy of every agent lie in
\* [-1, 1].
C6_VelocityInRangeAfterUpdate ==
    lastOp = "update" => \A i \in 1..Len(ants) : VelocityInRange(ants[i])

\* An update has clamped an agent at -1 on one axis and at 1 on the other.
C6_Witness ==
    /\ lastOp = "update"
    /\ \E i \in 1..Len(ants) :
         \/ ants[i].dx = -ONE /\ ants[i].dy = ONE
         \/ ants[i].dx = ONE /\ ants[i].dy = -ONE

\* The agents that deliver, and those that pick up, in the step ants -> ants'.
DeliveredNow == {i \in 1..Len(ants) : ants[i].has_food /\ ~ants'[i].has_food}

PickedNow == {i \in 1..Len(ants) : ~ants[i].has_food /\ ants'[i].has_food}

\* C3: food_delivered never decreases; one Colony.update raises it by
\* exactly the number of agents that change from carrying to not carrying,
\* each of them inside the nest box; resolve_collisions leaves it alone.
C3_DeliveryCountedOnce ==
    [][/\ food_delivered' >= food_delivered
       /\ lastOp' = "update" =>
            /\ food_delivered' - food_delivered = Cardinality(DeliveredNow)
            /\ \A i \in DeliveredNow : InNestBox(ants'[i])
       /\ lastOp' = "resolve" => food_delivered' = food_delivered]_vars

\* An update has just delivered food.
C3_Witness ==
    /\ lastOp = "update"
    /\ food_delivered > 0
    /\ \E i \in 1..Len(ants) : ~ants[i].has_food /\ InNestBox(ants[i])

\* The scent of agent i's carrying state before the step.
ScentBefore(i) ==
    IF ants[i].has_food THEN ants[i].food_pher ELSE ants[i].home_pher

\* The integer position of agent i changed in the step.
CellChanged(i) ==
    ants[i].last_x # ants'[i].int_x \/ ants[i].last_y # ants'[i].int_y

\* Agent i's scents are as before, but for the reset to 100 of a delivery
\* (home) or of a pickup (food) in Colony.update.
ScentsKept(i) ==
    /\ \/ ants'[i].home_pher = ants[i].home_pher
       \/ i \in DeliveredNow /\ ants'[i].home_pher = FULL_PHER
    /\ \/ ants'[i].food_pher = ants[i].food_pher
       \/ i \in PickedNow /\ ants'[i].food_pher = FULL_PHER

\* C9 as stated: when the agent's integer cell changed, the value handed to
\* set_value is the scent as it was before this tick's use_rate
\* multiplication; when it did not change, nothing is deposited and neither
\* scent changes.
C9_DepositThenDecay ==
    [][lastOp' = "update" =>
         \A i \in 1..Len(ants) :
           IF CellChanged(i)
           THEN /\ ants'[i].depMap = (IF ants[i].has_food THEN "food" ELSE "home")
                /\ ants'[i].dep = ScentBefore(i)
           ELSE ants'[i].depMap = "none" /\ ScentsKept(i)]_vars

\* C9 amended: when the agent's integer cell changed, the value handed to
\* set_value is the scent after this tick's use_rate multiplication (99.5 for
\* the first deposit after a reset to 100); when it did not change, nothing
\* is deposited and neither scent changes.
C9_DecayThenDeposit ==
    [][lastOp' = "update" =>
         \A i \in 1..Len(ants) :
           IF CellChanged(i)
           THEN /\ ants'[i].depMap = (IF ants[i].has_food THEN "food" ELSE "home")
                /\ ants'[i].dep = Mul(ScentBefore(i), USE_RATE)
           ELSE ants'[i].depMap = "none" /\ ScentsKept(i)]_vars

\* An agent that picked up food made its first deposit into the food field,
\* while another agent did not change cell and deposited nothing.
C9_Witness ==
    /\ lastOp = "update"
    /\ \E i \in 1..Len(ants) :
         ants[i].depMap = "food" /\ ants[i].dep = Mul(FULL_PHER, USE_RATE)
    /\ \E j \in 1..Len(ants) : ants[j].depMap = "none"

\* The cell of agent i after the step.
CellAfter(i) ==
    <<ants'[i].int_y \div CELL_SIZE, ants'[i].int_x \div CELL_SIZE>>

\* C10: food_delivered plus the number of carrying agents equals the number
\* of pickups; an update clears one present food cell per pickup and nothing
\* else, so two agents never pick up at the same cell in one tick;
\* resolve_collisions changes neither; without add_food the number of food
\* cells never grows.
C10_FoodConserved ==
    [][/\ food_delivered' + Carrying(ants') = pickups'
       /\ lastOp' = "update" =>
            /\ pickups' - pickups = Cardinality(PickedNow)
            /\ food' = food \ {CellAfter(i) : i \in PickedNow}
            /\ \A i \in PickedNow : CellAfter(i) \in food
            /\ Cardinality(food) - Cardinality(food') = Cardinality(PickedNow)
       /\ lastOp' = "resolve" => (food' = food /\ pickups' = pickups)
       /\ lastOp' # "add_food" => Cardinality(food') <= Cardinality(food)]_vars

\* After food was placed, one update left two agents on the same cell, the
\* first carrying the cell's food and the second empty-handed.
C10_Witness ==
    /\ lastOp = "update"
    /\ ops = 2
    /\ ticks = 1
    /\ pickups = 1
    /\ food # {}
    /\ \E i, j \in 1..Len(ants) :
         /\ i < j
         /\ ants[i].has_food
         /\ ~ants[j].has_food
         /\ ants[i].int_x \div CELL_SIZE = ants[j].int_x \div CELL_SIZE
         /\ ants[i].int_y \div CELL_SIZE = ants[j].int_y \div CELL_SIZE
         /\ <<ants[i].int_y \div CELL_SIZE, ants[i].int_x \div CELL_SIZE>> \notin food

=============================================================================
